---- MODULE Spec2Model ----
(***************************************************************************)
(* Asynchronous tar reader: AsyncArchiveReader, the AsyncEntries traversal *)
(* and the AsyncEntry / AsyncEntryReader payload views, all sharing one    *)
(* Arc<Mutex<R>> stream.  The stream R is an in-memory cursor (the         *)
(* std::io::Cursor the crate's tests use): a byte vector and one physical  *)
(* position; a read copies as many bytes as are available and never        *)
(* suspends.  Bytes are modelled as the integers 0..255 and offsets count  *)
(* from 0, so the byte at offset k of a sequence s is s[k + 1].            *)
(***************************************************************************)
EXTENDS Integers, Sequences, FiniteSets, TLC

VARIABLES shape, phys, ignore_zeros, trav, entries, readers, fs, lock, poisoned,
          tasks, last

vars == <<shape, phys, ignore_zeros, trav, entries, readers, fs, lock, poisoned, tasks,
         last>>

(***************************************************************************)
(* Program constants and the bounds of the model.                          *)
(***************************************************************************)
BLOCK_SIZE == 512

UnpackBufLen == 8192

MaxMembers == 3

MaxZeroBlocks == 1

SmallSize == 13

KeepLen == 9

SmallBuf == 5

MaxEntries == 2

MaxReaders == 1

MaxReaderCalls == 2

LongNameLen == 3

MaxSeeks == 1

\* The bits of a word that stands for a u64 in the offset arithmetic.
OffsetBits == 13

(***************************************************************************)
(* Byte-level helpers.                                                     *)
(***************************************************************************)
Min(a, b) == IF a < b THEN a ELSE b

Zeros(n) == [i \in 1..n |-> 0]

\* The n bytes of s that start at offset off (fewer when s ends first).
Slice(s, off, n) == SubSeq(s, off + 1, Min(off + n, Len(s)))

RECURSIVE SumBytes(_, _, _)
SumBytes(s, i, j) ==
    IF i > j THEN 0
    ELSE IF i = j THEN s[i]
    ELSE LET m == (i + j) \div 2 IN SumBytes(s, i, m) + SumBytes(s, m + 1, j)

IsOctalDigit(b) == b >= 48 /\ b <= 55

\* Value of a sequence of ASCII octal digits, most significant first.
RECURSIVE OctalValue(_)
OctalValue(ds) ==
    IF Len(ds) = 0 THEN 0
    ELSE 8 * OctalValue(SubSeq(ds, 1, Len(ds) - 1)) + (ds[Len(ds)] - 48)

\* u32::from_str_radix(s, 8) on a field that already passed the character
\* check: every byte must be a digit, a NUL or a space is an invalid digit.
\* -1 stands for Err.
FromStrRadix8(field) ==
    IF Len(field) > 0 /\ \A i \in 1..Len(field) : IsOctalDigit(field[i])
    THEN OctalValue(field)
    ELSE -1

(***************************************************************************)
(* The header codec (Header::new_gnu, set_path, set_size, set_cksum,       *)
(* size) and the archives the stream may hold.                             *)
(***************************************************************************)
RECURSIVE OctalDigits(_, _)
OctalDigits(v, n) ==
    IF n = 0 THEN <<>> ELSE OctalDigits(v \div 8, n - 1) \o <<48 + (v % 8)>>

\* octal_into: the value right-aligned in all but the last byte of the field,
\* zero-padded on the left; the last byte keeps the NUL of a fresh header.
OctalInto(width, v) == OctalDigits(v, width - 1) \o <<0>>

\* "ustar " followed by the GNU version " \0".
GnuMagic == <<117, 115, 116, 97, 114, 32, 32, 0>>

\* A fresh GNU header with a one-letter path and a size; the checksum field is
\* still blank (eight spaces, which is how the checksum counts it).
NewGnuHeader(name, size) ==
    [i \in 1..BLOCK_SIZE |->
        LET k == i - 1 IN
        IF k = 0 THEN name
        ELSE IF k >= 124 /\ k < 136 THEN OctalInto(12, size)[k - 123]
        ELSE IF k >= 136 /\ k < 148 THEN OctalInto(12, 0)[k - 135]
        ELSE IF k >= 148 /\ k < 156 THEN 32
        ELSE IF k >= 257 /\ k < 265 THEN GnuMagic[k - 256]
        ELSE 0]

CalculateCksum(h) == SumBytes(h, 1, 148) + 8 * 32 + SumBytes(h, 157, BLOCK_SIZE)

\* The two layouts of the checksum field found in archives: the codec's
\* set_cksum (seven digits and a NUL), and eight octal digits.
CksumStyles == {"codec", "digits"}

CksumField(style, v) ==
    IF style = "codec" THEN OctalInto(8, v) ELSE OctalDigits(v, 8)

SetCksum(h, style) ==
    LET f == CksumField(style, CalculateCksum(h)) IN
    [i \in 1..BLOCK_SIZE |-> IF i > 148 /\ i <= 156 THEN f[i - 148] ELSE h[i]]

\* Header::size: the size field up to its first NUL, spaces trimmed, read as
\* octal; -1 stands for Err (an empty or malformed field).
RECURSIVE TruncateAtNul(_)
TruncateAtNul(f) ==
    IF Len(f) = 0 \/ f[1] = 0 THEN <<>> ELSE <<f[1]>> \o TruncateAtNul(Tail(f))

RECURSIVE TrimLeft(_)
TrimLeft(f) == IF Len(f) > 0 /\ f[1] = 32 THEN TrimLeft(Tail(f)) ELSE f

RECURSIVE TrimRight(_)
TrimRight(f) ==
    IF Len(f) > 0 /\ f[Len(f)] = 32 THEN TrimRight(SubSeq(f, 1, Len(f) - 1)) ELSE f

HeaderSize(h) == FromStrRadix8(TrimRight(TrimLeft(TruncateAtNul(SubSeq(h, 125, 136)))))

\* Payload byte j of member m: a capital letter that differs between members
\* and between neighbouring positions.
PayloadByte(m, j) == 65 + ((7 * m + j) % 26)

Payload(m, size) == [j \in 1..size |-> PayloadByte(m, j - 1)]

PadLen(size) == (BLOCK_SIZE - (size % BLOCK_SIZE)) % BLOCK_SIZE

\* A header changed after its checksum was set: the first byte of the mtime
\* field turns from '0' into '1', so the stored checksum is one less than the
\* sum of the bytes.
Damage(h) == [h EXCEPT ![137] = 49]

\* Entry types: a regular file (the NUL of a fresh header), a directory '5',
\* a GNU long-pathname header 'L'.
Regular == 0

Directory == 53

GnuLongName == 76

Sizes == {0, SmallSize}

\* The payload sizes of an archive's members: the first member's, and one
\* size shared by the members after it.
MemberSeqs ==
    {[i \in 1..n |-> IF i = 1 THEN f ELSE r] : n \in 0..MaxMembers, f \in Sizes, r \in Sizes}

\* The shapes of the archives considered: members followed by zero blocks,
\* and the variations of it: the header of the last member damaged, a long
\* name in front of the last member, the second member a directory, the
\* archive cut short.
Shapes ==
    [sizes : MemberSeqs, zeros : 0..MaxZeroBlocks, style : CksumStyles, cut : {FALSE},
     damaged : {FALSE}, longname : {FALSE}, dir : {FALSE}]
    \cup [sizes : MemberSeqs \ {<<>>}, zeros : 0..MaxZeroBlocks, style : CksumStyles,
          cut : {FALSE}, damaged : {TRUE}, longname : {FALSE}, dir : {FALSE}]
    \cup [sizes : MemberSeqs \ {<<>>}, zeros : 0..MaxZeroBlocks, style : CksumStyles,
          cut : {FALSE}, damaged : {FALSE}, longname : {TRUE}, dir : {FALSE}]
    \cup [sizes : {q \in MemberSeqs : Len(q) >= 2 /\ q[2] = 0}, zeros : 0..MaxZeroBlocks,
          style : CksumStyles, cut : {FALSE}, damaged : {FALSE}, longname : {FALSE},
          dir : {TRUE}]
    \cup [sizes : MemberSeqs \ {<<>>}, zeros : {0}, style : CksumStyles, cut : {TRUE},
          damaged : {FALSE}, longname : {FALSE}, dir : {FALSE}]

\* The entry type of member m of an archive of shape sh.
KindOf(sh, m) == IF sh.dir /\ m = 2 THEN Directory ELSE Regular

\* Member m of an archive: header, payload, padding to the block boundary.
Member(sh, m) ==
    LET size == sh.sizes[m]
        h == SetCksum([NewGnuHeader(96 + m, size) EXCEPT ![157] = KindOf(sh, m)], sh.style)
    IN  (IF sh.damaged /\ m = Len(sh.sizes) THEN Damage(h) ELSE h)
        \o Payload(m, size) \o Zeros(PadLen(size))

\* The long name of member m, and the metadata member that carries it in
\* front of the member's own header: a header of type 'L' named "." whose
\* payload is the name and a NUL.
LongName(m) == [j \in 1..LongNameLen |-> 96 + m]

LongNameMember(m, style) ==
    LET size == LongNameLen + 1
        h == [NewGnuHeader(46, size) EXCEPT ![157] = GnuLongName]
    IN  SetCksum(h, style) \o LongName(m) \o <<0>> \o Zeros(PadLen(size))

\* The members from the m-th on.
RECURSIVE Members(_, _)
Members(sh, m) ==
    IF m > Len(sh.sizes) THEN <<>>
    ELSE (IF sh.longname /\ m = Len(sh.sizes) THEN LongNameMember(m, sh.style) ELSE <<>>)
         \o Member(sh, m) \o Members(sh, m + 1)

\* A well-formed archive: members, then all-zero blocks.
Whole(sh) == Members(sh, 1) \o Zeros(sh.zeros * BLOCK_SIZE)

\* The same archive cut short inside its last block, of which KeepLen bytes
\* remain: a truncated payload, or a partial header when the last member is
\* empty.
CutShort(sh) ==
    LET w == Whole(sh) IN SubSeq(w, 1, Len(w) - BLOCK_SIZE + KeepLen)

Build(sh) == IF sh.cut THEN CutShort(sh) ELSE Whole(sh)

(***************************************************************************)
(* The shared stream: Arc<Mutex<R>> reached through AsyncMutexReader.      *)
(* Every poll_read, start_seek and poll_complete takes the lock, acts on R *)
(* and releases it, so the lock is free between any two steps.             *)
(***************************************************************************)
\* poll_read of the cursor at position p into a buffer with room for n bytes.
StreamRead(s, p, n) == IF p >= Len(s) THEN <<>> ELSE Slice(s, p, n)

\* seek(SeekFrom::Start(n)) and seek(SeekFrom::Current(d)) of the cursor.
SeekStart(p, n) == n

SeekRelative(p, d) == p + d

\* try_read_all_async: read until n bytes are in buf; a read of 0 bytes is
\* the end of the stream and gives Ok(false).
RECURSIVE TryReadAllAsync(_, _, _, _)
TryReadAllAsync(s, p, buf, n) ==
    IF Len(buf) >= n THEN [ok |-> TRUE, phys |-> p, buf |-> buf]
    ELSE LET chunk == StreamRead(s, p, n - Len(buf)) IN
         IF Len(chunk) = 0 THEN [ok |-> FALSE, phys |-> p, buf |-> buf]
         ELSE TryReadAllAsync(s, p + Len(chunk), buf \o chunk, n)

\* No block taken to be all zeros.
IsZeroBlockNever(h) == FALSE

\* header.iter().all(|i| *i == 0)
IsZeroBlock(h) == \A i \in 1..Len(h) : h[i] = 0

(***************************************************************************)
(* State.  trav is the AsyncEntries traversal (AsyncEntriesFields and the  *)
(* archive clone it holds), entries the AsyncEntry values yielded so far,  *)
(* readers the AsyncEntryReader values, fs what unpack has made below its   *)
(* destination, in the order it was made, lock the set of tasks that hold  *)
(* the stream's mutex, poisoned whether a holder of the mutex has panicked, *)
(* tasks the position of each concurrent task in the                       *)
(* call it is making, last the outcome of the call that completed most     *)
(* recently.                                                               *)
(***************************************************************************)
\* The bytes of every archive considered, and those of the stream at hand.
ArchiveOf == [sh \in Shapes |-> Build(sh)] @@ <<>>

stream == ArchiveOf[shape]

InnerPos == 0

NoTrav == [live |-> FALSE, offset |-> 0, done |-> FALSE, ignore_zeros |-> FALSE,
           started |-> FALSE, failed |-> FALSE]

NoPre == [offset |-> 0, done |-> FALSE, phys |-> 0, pos |-> 0, first |-> FALSE,
          failed |-> FALSE]

\* last: the call (op, the handle who, the buffer length arg), what it returned
\* (res, err, bytes), where its stream access began (at), whether it touched
\* the stream (io), and the fields it found on entry (pre).
NoOp == [op |-> "none", who |-> 0, arg |-> 0, res |-> "none", err |-> "",
         bytes |-> <<>>, at |-> 0, io |-> FALSE, pre |-> NoPre]

Outcome(op, who, arg, res, err, bytes, at, io, pre) ==
    [op |-> op, who |-> who, arg |-> arg, res |-> res, err |-> err, bytes |-> bytes,
     at |-> at, io |-> io, pre |-> pre]

\* Task 0 calls next() on the traversal, task i calls read() on entry i.
Tasks == 0..MaxEntries

IdleTask == [pc |-> "idle", buf |-> <<>>, arg |-> 0]

Init ==
    /\ shape \in Shapes
    /\ phys = 0
    /\ ignore_zeros = FALSE
    /\ trav = NoTrav
    /\ entries = <<>>
    /\ readers = <<>>
    /\ fs = <<>>
    /\ lock = {}
    /\ poisoned = FALSE
    /\ tasks = [t \in Tasks |-> IdleTask]
    /\ last = NoOp

(***************************************************************************)
(* AsyncArchiveReader                                                      *)
(***************************************************************************)
TravOf(iz) == [live |-> TRUE, offset |-> InnerPos, done |-> FALSE,
               ignore_zeros |-> iz, started |-> FALSE, failed |-> FALSE]

\* entries() without the all-zero test of the first block.
EntriesCallNoZeroTest(s, p) ==
    LET r == TryReadAllAsync(s, p, <<>>, BLOCK_SIZE) IN
    IF ~r.ok THEN [ok |-> FALSE, err |-> "invalid header", phys |-> r.phys]
    ELSE [ok |-> TRUE, err |-> "", phys |-> SeekRelative(r.phys, 0)]

\* entries(): read the first header through the shared stream, reject a short
\* or all-zero block, then seek_relative(reader, 0).
EntriesCall(s, p) ==
    LET r == TryReadAllAsync(s, p, <<>>, BLOCK_SIZE) IN
    IF ~r.ok THEN [ok |-> FALSE, err |-> "invalid header", phys |-> r.phys]
    ELSE IF IsZeroBlock(r.buf)
         THEN [ok |-> FALSE, err |-> "invalid header", phys |-> r.phys]
         ELSE [ok |-> TRUE, err |-> "", phys |-> SeekRelative(r.phys, 0)]

\* One traversal is made per archive: entries() is called until it succeeds.
Entries ==
    /\ ~trav.live
    /\ LET c == EntriesCall(stream, phys) IN
        /\ phys' = c.phys
        /\ trav' = IF c.ok THEN TravOf(ignore_zeros) ELSE trav
        /\ last' = Outcome("entries", 0, 0, IF c.ok THEN "ok" ELSE "err", c.err, <<>>,
                           phys, TRUE, [NoPre EXCEPT !.phys = phys])
    /\ UNCHANGED <<shape, poisoned, lock, tasks, fs, ignore_zeros, entries, readers>>

\* set_ignore_zeros, called while configuring the archive, before the
\* traversal (which holds its own clone of the archive) is made.
SetIgnoreZeros(b) ==
    /\ ~trav.live
    /\ b # ignore_zeros
    /\ ignore_zeros' = b
    /\ last' = Outcome("set_ignore_zeros", 0, 0, "ok", "", <<>>, phys, FALSE,
                       [NoPre EXCEPT !.phys = phys])
    /\ UNCHANGED <<shape, poisoned, lock, tasks, fs, phys, trav, entries, readers>>

(***************************************************************************)
(* AsyncEntries                                                            *)
(***************************************************************************)
\* An AsyncEntry: of its header the first byte of the path and the entry
\* type; <<>> stands for a long_pathname of None.
NoEntry == [path |-> 0, kind |-> 0, size |-> 0, pos |-> 0, header_pos |-> 0,
            file_pos |-> 0, long_pathname |-> <<>>]

UstarMagic == <<117, 115, 116, 97, 114, 0, 48, 48>>

\* The header checks without the comparison of the checksum field with the
\* sum of the bytes.
HeaderErrorNoMismatchTest(h) ==
    LET field == SubSeq(h, 149, 156)
        cksum == FromStrRadix8(field)
    IN  IF \E i \in 1..BLOCK_SIZE : h[i] # 0 /\ h[i] > 127
        THEN "invalid bytes"
        ELSE IF SubSeq(h, 258, 265) # UstarMagic /\ SubSeq(h, 258, 265) # GnuMagic
        THEN "not recognized"
        ELSE IF ~(\A i \in 1..8 : field[i] = 32 \/ field[i] = 0 \/ IsOctalDigit(field[i]))
        THEN "checksum field contains invalid characters"
        ELSE IF cksum = -1 THEN "invalid header checksum"
        ELSE IF HeaderSize(h) = -1 THEN "invalid size"
        ELSE ""

\* The header checks of next_entry_raw after the all-zero test, in order;
\* "" when the block passes them all.
HeaderError(h) ==
    LET field == SubSeq(h, 149, 156)
        sum == SumBytes(h, 1, 148) + SumBytes(h, 157, BLOCK_SIZE) + 8 * 32
        cksum == FromStrRadix8(field)
    IN  IF \E i \in 1..BLOCK_SIZE : h[i] # 0 /\ h[i] > 127
        THEN "invalid bytes"
        ELSE IF SubSeq(h, 258, 265) # UstarMagic /\ SubSeq(h, 258, 265) # GnuMagic
        THEN "not recognized"
        ELSE IF ~(\A i \in 1..8 : field[i] = 32 \/ field[i] = 0 \/ IsOctalDigit(field[i]))
        THEN "checksum field contains invalid characters"
        ELSE IF cksum = -1 THEN "invalid header checksum"
        ELSE IF sum # cksum THEN "checksum mismatch"
        ELSE IF HeaderSize(h) = -1 THEN "invalid size"
        ELSE ""

\* The payload length taken as it is, not rounded up to whole blocks.
RoundUpNot(size) == size

\* (size + (BLOCK_SIZE - 1)) & !(BLOCK_SIZE - 1)
RoundUp(size) == ((size + (BLOCK_SIZE - 1)) \div BLOCK_SIZE) * BLOCK_SIZE

RawResult(res, err, t, p, e, at) ==
    [res |-> res, err |-> err, trav |-> t, phys |-> p, entry |-> e, at |-> at,
     io |-> TRUE]

\* next_entry_raw without the advance of offset over the header block.
AfterHeaderReadNoAdvance(t, r, at) ==
    LET header_pos == t.offset
        t1 == t
        file_pos == t1.offset
    IN  IF ~r.ok
        THEN RawResult("none", "", [t EXCEPT !.done = TRUE], r.phys, NoEntry, at)
        ELSE IF IsZeroBlock(r.buf)
        THEN IF t1.offset = BLOCK_SIZE
             THEN RawResult("err", "invalid header", t1, r.phys, NoEntry, at)
             ELSE IF ~t.ignore_zeros
             THEN RawResult("none", "", [t1 EXCEPT !.done = TRUE], r.phys, NoEntry, at)
             ELSE RawResult("err", "all zeros but ignore_zeros is true", t1, r.phys,
                            NoEntry, at)
        ELSE IF HeaderError(r.buf) # ""
        THEN RawResult("err", HeaderError(r.buf), t1, r.phys, NoEntry, at)
        ELSE LET size == HeaderSize(r.buf) IN
             RawResult("entry", "",
                       [t1 EXCEPT !.offset = t1.offset + RoundUp(size)], r.phys,
                       [path |-> r.buf[1], kind |-> r.buf[157], size |-> size,
                        pos |-> 0, header_pos |-> header_pos, file_pos |-> file_pos,
                        long_pathname |-> <<>>],
                       at)

\* next_entry_raw from the point where try_read_all_async has returned r for
\* the header block, read from stream position at.
AfterHeaderRead(t, r, at) ==
    LET header_pos == t.offset
        t1 == [t EXCEPT !.offset = header_pos + BLOCK_SIZE]
        file_pos == t1.offset
    IN  IF ~r.ok
        THEN RawResult("none", "", [t EXCEPT !.done = TRUE], r.phys, NoEntry, at)
        ELSE IF IsZeroBlock(r.buf)
        THEN IF t1.offset = BLOCK_SIZE
             THEN RawResult("err", "invalid header", t1, r.phys, NoEntry, at)
             ELSE IF ~t.ignore_zeros
             THEN RawResult("none", "", [t1 EXCEPT !.done = TRUE], r.phys, NoEntry, at)
             ELSE RawResult("err", "all zeros but ignore_zeros is true", t1, r.phys,
                            NoEntry, at)
        ELSE IF HeaderError(r.buf) # ""
        THEN RawResult("err", HeaderError(r.buf), t1, r.phys, NoEntry, at)
        ELSE LET size == HeaderSize(r.buf) IN
             RawResult("entry", "",
                       [t1 EXCEPT !.offset = t1.offset + RoundUp(size)], r.phys,
                       [path |-> r.buf[1], kind |-> r.buf[157], size |-> size,
                        pos |-> 0, header_pos |-> header_pos, file_pos |-> file_pos,
                        long_pathname |-> <<>>],
                       at)

\* next_entry_raw on traversal t with the stream at physical position p: the
\* seek by delta (which is always 0), the read of the header block, the rest.
NextEntryRaw(t, s, p) ==
    LET header_pos == t.offset
        delta == header_pos - t.offset
        p1 == IF delta # 0 THEN SeekRelative(p, delta) ELSE p
    IN  AfterHeaderRead(t, TryReadAllAsync(s, p1, <<>>, BLOCK_SIZE), p1)

\* next() without the early return of a finished traversal.
NextCallNoDoneTest(t, s, p) ==
    LET r == NextEntryRaw(t, s, p) IN
    IF r.res = "none" THEN [r EXCEPT !.trav.done = TRUE] ELSE r

\* next(): a finished traversal answers Ok(None) at once; otherwise
\* next_entry_raw decides, and Ok(None) from it marks the traversal done.
NextCall(t, s, p) ==
    IF t.done
    THEN [res |-> "none", err |-> "", trav |-> t, phys |-> p, entry |-> NoEntry,
          at |-> p, io |-> FALSE]
    ELSE LET r == NextEntryRaw(t, s, p) IN
         IF r.res = "none" THEN [r EXCEPT !.trav.done = TRUE] ELSE r

\* At most MaxEntries entries are kept; a call that would yield one more is
\* not made.  started and failed are not fields of the code: they record that
\* next() was called, and that a call returned Err; nor is seeks, the number
\* of seeks made on an entry.
NextEntry ==
    /\ trav.live
    /\ LET c == NextCall(trav, stream, phys) IN
        /\ c.res = "entry" => Len(entries) < MaxEntries
        /\ trav' = [c.trav EXCEPT !.started = TRUE,
                                  !.failed = trav.failed \/ c.res = "err"]
        /\ phys' = c.phys
        /\ entries' = IF c.res = "entry"
                      THEN Append(entries, c.entry @@ [seeks |-> 0])
                      ELSE entries
        /\ last' = Outcome("next", IF c.res = "entry" THEN Len(entries) + 1 ELSE 0, 0,
                           c.res, c.err, <<>>, c.at, c.io,
                           [offset |-> trav.offset, done |-> trav.done, phys |-> phys,
                            pos |-> 0, first |-> ~trav.started,
                            failed |-> trav.failed])
    /\ UNCHANGED <<shape, poisoned, lock, tasks, fs, ignore_zeros, readers>>

(***************************************************************************)
(* AsyncEntry                                                              *)
(***************************************************************************)
BufLens == {SmallBuf, UnpackBufLen}

\* AsyncEntryTrait::read for AsyncEntry with a buffer of k bytes: one
\* poll_read of the shared stream, at whatever position the stream is.
EntryReadCall(e, s, p, k) ==
    IF e.pos >= e.size
    THEN [bytes |-> <<>>, phys |-> p, pos |-> e.pos, io |-> FALSE]
    ELSE LET amt == Min(k, e.size - e.pos)
             chunk == StreamRead(s, p, amt)
         IN  [bytes |-> chunk, phys |-> p + Len(chunk), pos |-> e.pos + Len(chunk),
              io |-> TRUE]

EntryRead(i, k) ==
    /\ i \in 1..Len(entries)
    /\ LET c == EntryReadCall(entries[i], stream, phys, k) IN
        /\ phys' = c.phys
        /\ entries' = [entries EXCEPT ![i].pos = c.pos]
        /\ last' = Outcome("read", i, k, "ok", "", c.bytes, phys, c.io,
                           [NoPre EXCEPT !.phys = phys, !.pos = entries[i].pos])
    /\ UNCHANGED <<shape, poisoned, lock, tasks, fs, ignore_zeros, trav, readers>>

\* AsyncEntryTrait::read_all for AsyncEntry: read into a buffer of size bytes
\* until it is full or a read gives 0, truncate to what was read, Ok.
RECURSIVE ReadAllLoop(_, _, _, _)
ReadAllLoop(e, s, p, buf) ==
    IF Len(buf) >= e.size
    THEN [res |-> "ok", bytes |-> buf, phys |-> p, pos |-> e.pos]
    ELSE LET r == EntryReadCall(e, s, p, e.size - Len(buf)) IN
         IF Len(r.bytes) = 0
         THEN [res |-> "ok", bytes |-> buf, phys |-> r.phys, pos |-> r.pos]
         ELSE ReadAllLoop([e EXCEPT !.pos = r.pos], s, r.phys, buf \o r.bytes)

EntryReadAllCall(e, s, p) == ReadAllLoop(e, s, p, <<>>)

EntryReadAll(i) ==
    /\ i \in 1..Len(entries)
    /\ LET c == EntryReadAllCall(entries[i], stream, phys) IN
        /\ phys' = c.phys
        /\ entries' = [entries EXCEPT ![i].pos = c.pos]
        /\ last' = Outcome("read_all", i, 0, c.res, "", c.bytes, phys, TRUE,
                           [NoPre EXCEPT !.phys = phys, !.pos = entries[i].pos])
    /\ UNCHANGED <<shape, poisoned, lock, tasks, fs, ignore_zeros, trav, readers>>

\* u64::saturating_add_signed, for values far below u64::MAX.
SaturatingAddSigned(a, n) == IF a + n < 0 THEN 0 ELSE a + n

Whences == {"Start", "Current", "End"}

SeekArgs == {-SmallBuf, 0, SmallBuf}

\* AsyncSeek::start_seek for AsyncEntry: the new read cursor.
EntrySeekCall(e, whence, n) ==
    IF whence = "Start" THEN n
    ELSE IF whence = "Current" THEN SaturatingAddSigned(e.pos, n)
    ELSE SaturatingAddSigned(e.size, n)

\* seek on an entry: start_seek, then poll_complete returns the cursor.
\* SeekFrom::Start takes a u64.  At most MaxSeeks seeks are made on an entry.
EntrySeek(i, whence, n) ==
    /\ i \in 1..Len(entries)
    /\ entries[i].seeks < MaxSeeks
    /\ whence = "Start" => n >= 0
    /\ LET pos == EntrySeekCall(entries[i], whence, n) IN
        /\ entries' = [entries EXCEPT ![i].pos = pos, ![i].seeks = @ + 1]
        /\ last' = Outcome("seek", i, n, "ok", "", <<>>, phys, FALSE,
                           [NoPre EXCEPT !.phys = phys, !.pos = entries[i].pos])
    /\ UNCHANGED <<shape, poisoned, lock, tasks, fs, phys, ignore_zeros, trav, readers>>

(***************************************************************************)
(* AsyncEntryReader.  Its read is two steps on the shared stream, the seek *)
(* and the poll_read, each under its own acquisition of the lock.          *)
(***************************************************************************)
\* AsyncEntryReader::new over the fields of a yielded entry.
ReaderNew(i) ==
    /\ i \in 1..Len(entries)
    /\ Len(readers) < MaxReaders
    /\ readers' = Append(readers,
                         [size |-> entries[i].size, pos |-> 0,
                          header_pos |-> entries[i].header_pos,
                          file_pos |-> entries[i].file_pos,
                          path |-> entries[i].path, pc |-> "idle", want |-> 0,
                          calls |-> 0])
    /\ last' = Outcome("reader_new", Len(readers) + 1, 0, "ok", "", <<>>, phys, FALSE,
                       [NoPre EXCEPT !.phys = phys])
    /\ UNCHANGED <<shape, poisoned, lock, tasks, fs, phys, ignore_zeros, trav, entries>>

\* read, first half: Ok(0) at the end of the payload, else
\* reader.seek(SeekFrom::Start(file_pos + pos)).  A reader makes at most
\* MaxReaderCalls reads.
ReaderSeek(j, k) ==
    /\ j \in 1..Len(readers)
    /\ readers[j].pc = "idle"
    /\ readers[j].calls < MaxReaderCalls
    /\ LET r == readers[j]
           atEnd == r.pos >= r.size
           archive_pos == r.file_pos + r.pos
       IN  /\ phys' = IF atEnd THEN phys ELSE SeekStart(phys, archive_pos)
           /\ readers' = IF atEnd THEN readers
                         ELSE [readers EXCEPT ![j].pc = "seeked", ![j].want = k,
                                              ![j].calls = r.calls + 1]
           /\ last' = Outcome(IF atEnd THEN "reader_read" ELSE "reader_seek", j, k,
                              "ok", "", <<>>, phys, ~atEnd,
                              [NoPre EXCEPT !.phys = phys, !.pos = r.pos])
    /\ UNCHANGED <<shape, poisoned, lock, tasks, fs, ignore_zeros, trav, entries>>

\* read, second half: poll_read of at most min(buf.len(), size - pos) bytes.
ReaderPollRead(j) ==
    /\ j \in 1..Len(readers)
    /\ readers[j].pc = "seeked"
    /\ LET r == readers[j]
           amt == Min(r.want, r.size - r.pos)
           chunk == StreamRead(stream, phys, amt)
       IN  /\ phys' = phys + Len(chunk)
           /\ readers' = [readers EXCEPT ![j].pc = "idle", ![j].want = 0,
                                         ![j].pos = r.pos + Len(chunk)]
           /\ last' = Outcome("reader_read", j, r.want, "ok", "", chunk, phys, TRUE,
                              [NoPre EXCEPT !.phys = phys, !.pos = r.pos])
    /\ UNCHANGED <<shape, poisoned, lock, tasks, fs, ignore_zeros, trav, entries>>

(***************************************************************************)
(* Unpacking.  A path is the sequence of its components below the          *)
(* destination of AsyncArchive::unpack.                                    *)
(***************************************************************************)
IsRegular(kind) == kind = Regular \/ kind = 48

\* The copy loop of AsyncEntryTrait::unpack: read into a buffer of 8192
\* bytes and write what was read, until a read gives 0 (or fails).
RECURSIVE CopyLoop(_, _, _, _)
CopyLoop(e, s, p, written) ==
    LET r == EntryReadCall(e, s, p, UnpackBufLen) IN
    IF Len(r.bytes) = 0 THEN [phys |-> r.phys, content |-> written]
    ELSE CopyLoop([e EXCEPT !.pos = r.pos], s, r.phys, written \o r.bytes)

\* AsyncEntryTrait::unpack for AsyncEntry with destination dst: the path is
\* dst joined with the header's path; its parent is created, then the file
\* (with the bytes the copy loop read), or the directory.
EntryUnpack(e, s, p, dst) ==
    LET path == dst \o <<e.path>>
        parent == [op |-> "create_dir_all", of |-> "parent", path |-> dst,
                   content |-> <<>>]
    IN  IF IsRegular(e.kind)
        THEN LET c == CopyLoop(e, s, p, <<>>) IN
             [phys |-> c.phys,
              made |-> <<parent, [op |-> "create", of |-> "file", path |-> path,
                                  content |-> c.content]>>]
        ELSE IF e.kind = Directory
        THEN [phys |-> p,
              made |-> <<parent, [op |-> "create_dir_all", of |-> "directory",
                                  path |-> path, content |-> <<>>]>>]
        ELSE [phys |-> p, made |-> <<parent>>]

\* The loop of AsyncArchive::unpack: while next() gives Ok(Some(entry)),
\* unpack the entry into dst joined with its path; anything else ends the
\* loop.  err is the error of the next() that ended it, "" for Ok(None).
RECURSIVE UnpackLoop(_, _, _, _)
UnpackLoop(t, s, p, made) ==
    LET c == NextCall(t, s, p) IN
    IF c.res # "entry" THEN [phys |-> c.phys, made |-> made, err |-> c.err]
    ELSE LET u == EntryUnpack(c.entry, s, c.phys, <<c.entry.path>>) IN
         UnpackLoop(c.trav, s, u.phys, made \o u.made)

\* AsyncArchive::unpack: entries()?, then the loop, then Ok(()).
UnpackCall(s, p, iz) ==
    LET e == EntriesCall(s, p) IN
    IF ~e.ok THEN [res |-> "err", err |-> e.err, phys |-> e.phys, made |-> <<>>]
    ELSE LET d == UnpackLoop(TravOf(iz), s, e.phys, <<>>) IN
         [res |-> "ok", err |-> d.err, phys |-> d.phys, made |-> d.made]

\* unpack is called on an archive that has no traversal of its own yet and
\* has not been unpacked before.
Unpack ==
    /\ ~trav.live
    /\ fs = <<>>
    /\ LET c == UnpackCall(stream, phys, ignore_zeros) IN
        /\ phys' = c.phys
        /\ fs' = c.made
        /\ last' = Outcome("unpack", 0, 0, c.res, c.err, <<>>, phys, TRUE,
                           [NoPre EXCEPT !.phys = phys])
    /\ UNCHANGED <<shape, poisoned, lock, tasks, ignore_zeros, trav, entries, readers>>

(***************************************************************************)
(* Concurrent tasks.  A call that needs the stream takes the mutex, polls   *)
(* the stream once and drops the guard when the block or the poll function *)
(* ends; std::sync::Mutex::lock blocks the caller while another task holds *)
(* the mutex.                                                              *)
(***************************************************************************)
\* The end of a block that holds the guard, once it let the stream deliver n
\* bytes, with the guard still held when nothing was read.
GuardKeptOnEmptyRead(t, n) == IF n = 0 THEN {t} ELSE {}

\* The end of the block that holds the guard: the mutex is free again.
GuardDrop(t, n) == {}

\* Task t calls next() (t = 0) or read() with a buffer of k bytes on entry t.
\* A finished traversal and an entry at its end answer at once; any other
\* call goes for the mutex.  next() is not called once MaxEntries entries are
\* kept.
TaskCall(t, k) ==
    /\ tasks[t].pc = "idle"
    /\ IF t = 0 THEN trav.live /\ Len(entries) < MaxEntries ELSE t <= Len(entries)
    /\ LET atOnce == IF t = 0 THEN trav.done ELSE entries[t].pos >= entries[t].size IN
        /\ tasks' = IF atOnce THEN tasks
                     ELSE [tasks EXCEPT ![t] = [pc |-> "waiting", buf |-> <<>>, arg |-> k]]
        /\ last' = IF ~atOnce THEN last
                    ELSE IF t = 0
                    THEN Outcome("next", 0, 0, "none", "", <<>>, phys, FALSE,
                                 [offset |-> trav.offset, done |-> trav.done,
                                  phys |-> phys, pos |-> 0, first |-> ~trav.started,
                                  failed |-> trav.failed])
                    ELSE Outcome("read", t, k, "ok", "", <<>>, phys, FALSE,
                                 [NoPre EXCEPT !.phys = phys, !.pos = entries[t].pos])
    /\ UNCHANGED <<shape, poisoned, phys, ignore_zeros, trav, entries, readers, fs, lock>>

\* lock() returns the guard to a waiting task when no task holds the mutex.
CanAcquire(t) == tasks[t].pc = "waiting" /\ lock = {}

\* A task that holds the guard is inside its poll and runs it to its end.
CanPoll(t) == tasks[t].pc = "holding" /\ t \in lock

TaskAcquire(t) ==
    /\ CanAcquire(t)
    /\ lock' = {t}
    /\ tasks' = [tasks EXCEPT ![t].pc = "holding"]
    /\ UNCHANGED <<shape, poisoned, phys, ignore_zeros, trav, entries, readers, fs, last>>

\* The poll of next() under the guard: one read_buf of try_read_all_async
\* into what is left of the header buffer.  A read that neither fills the
\* buffer nor is empty sends the task for the mutex again; otherwise
\* next_entry_raw and next() run to their end.
TaskPollNext ==
    /\ CanPoll(0)
    /\ LET buf == tasks[0].buf
           chunk == StreamRead(stream, phys, BLOCK_SIZE - Len(buf))
           more == Len(chunk) # 0 /\ Len(buf) + Len(chunk) < BLOCK_SIZE
           r == [ok |-> Len(chunk) # 0, phys |-> phys + Len(chunk), buf |-> buf \o chunk]
           raw == AfterHeaderRead(trav, r, phys - Len(buf))
           c == IF raw.res = "none" THEN [raw EXCEPT !.trav.done = TRUE] ELSE raw
       IN  /\ phys' = phys + Len(chunk)
           /\ lock' = GuardDrop(0, Len(chunk))
           /\ tasks' = IF more
                        THEN [tasks EXCEPT ![0].pc = "waiting", ![0].buf = buf \o chunk]
                        ELSE [tasks EXCEPT ![0] = IdleTask]
           /\ trav' = IF more THEN trav
                       ELSE [c.trav EXCEPT !.started = TRUE,
                                           !.failed = trav.failed \/ c.res = "err"]
           /\ entries' = IF ~more /\ c.res = "entry"
                          THEN Append(entries, c.entry @@ [seeks |-> 0])
                          ELSE entries
           /\ last' = IF more THEN last
                       ELSE Outcome("next", IF c.res = "entry" THEN Len(entries) + 1 ELSE 0,
                                    0, c.res, c.err, <<>>, c.at, TRUE,
                                    [offset |-> trav.offset, done |-> trav.done,
                                     phys |-> phys - Len(buf), pos |-> 0,
                                     first |-> ~trav.started, failed |-> trav.failed])
    /\ UNCHANGED <<shape, poisoned, ignore_zeros, readers, fs>>

\* The poll of read() on entry t under the guard.
TaskPollRead(t) ==
    /\ t \in 1..MaxEntries
    /\ CanPoll(t)
    /\ LET c == EntryReadCall(entries[t], stream, phys, tasks[t].arg) IN
        /\ phys' = c.phys
        /\ lock' = GuardDrop(t, Len(c.bytes))
        /\ tasks' = [tasks EXCEPT ![t] = IdleTask]
        /\ entries' = [entries EXCEPT ![t].pos = c.pos]
        /\ last' = Outcome("read", t, tasks[t].arg, "ok", "", c.bytes, phys, c.io,
                           [NoPre EXCEPT !.phys = phys, !.pos = entries[t].pos])
    /\ UNCHANGED <<shape, poisoned, ignore_zeros, trav, readers, fs>>

Next ==
    \/ Entries
    \/ \E b \in BOOLEAN : SetIgnoreZeros(b)
    \/ NextEntry
    \/ \E i \in 1..MaxEntries, k \in BufLens : EntryRead(i, k)
    \/ \E i \in 1..MaxEntries : EntryReadAll(i)
    \/ Unpack

Spec == Init /\ [][Next]_vars

\* The same program with AsyncEntryReader views over the yielded entries; the
\* traversal is advanced only before the first reader is made.
NextWithReaders ==
    \/ Entries
    \/ NextEntry /\ readers = <<>>
    \/ \E i \in 1..MaxEntries, k \in BufLens : EntryRead(i, k)
    \/ \E i \in 1..MaxEntries : ReaderNew(i)
    \/ \E j \in 1..MaxReaders, k \in BufLens : ReaderSeek(j, k)
    \/ \E j \in 1..MaxReaders : ReaderPollRead(j)

SpecReaders == Init /\ [][NextWithReaders]_vars

\* The same program with seeks on the yielded entries; the traversal is
\* advanced only before the first seek is made.
NextWithSeeks ==
    \/ Entries
    \/ NextEntry /\ \A i \in 1..Len(entries) : entries[i].seeks = 0
    \/ \E i \in 1..MaxEntries, k \in BufLens : EntryRead(i, k)
    \/ \E i \in 1..MaxEntries, w \in Whences, n \in SeekArgs : EntrySeek(i, w, n)

SpecSeeks == Init /\ [][NextWithSeeks]_vars

\* The same program with next() and the reads of the entries called by
\* concurrent tasks, each stream step under the mutex.
NextWithTasks ==
    \/ Entries
    \/ \E t \in Tasks, k \in BufLens : TaskCall(t, k)
    \/ \E t \in Tasks : TaskAcquire(t)
    \/ TaskPollNext
    \/ \E t \in Tasks : TaskPollRead(t)

SpecTasks == Init /\ [][NextWithTasks]_vars

(***************************************************************************)
(* A poisoned mutex.  std::sync::Mutex is poisoned when a thread panics    *)
(* while it holds the guard; from then on lock() returns Err, which every  *)
(* call site maps to an io::Error before the stream is reached.            *)
(***************************************************************************)
\* lock() taken as succeeding on a poisoned mutex as well.
LockErrNever(pz) == ""

\* lock().map_err(|_| io::Error::new(io::ErrorKind::Other, "lock poisoned"))?:
\* the error the call returns at once, "" when the guard is obtained.
LockErr(pz) == IF pz THEN "lock poisoned" ELSE ""

HandleArgs == {0, BLOCK_SIZE}

\* A panic of the stream's poll while a guard is held poisons the mutex.
Panic ==
    /\ ~poisoned
    /\ lock = {}
    /\ poisoned' = TRUE
    /\ last' = Outcome("panic", 0, 0, "none", "", <<>>, phys, FALSE,
                       [NoPre EXCEPT !.phys = phys])
    /\ UNCHANGED <<shape, lock, tasks, fs, phys, ignore_zeros, trav, entries, readers>>

\* What a call that failed to lock returns: nothing but last changes.
LockFailed(op, who, arg, pos) ==
    /\ last' = Outcome(op, who, arg, "err", LockErr(poisoned), <<>>, phys, FALSE,
                       [offset |-> trav.offset, done |-> trav.done, phys |-> phys,
                        pos |-> pos, first |-> ~trav.started, failed |-> trav.failed])
    /\ UNCHANGED <<shape, poisoned, lock, tasks, fs, phys, ignore_zeros, readers>>

\* poll_read of AsyncMutexReader (who = 1) and of AsyncArchiveReader
\* (who = 2) into a buffer with room for n bytes: lock, then R's poll_read.
HandlePollRead(who, n) ==
    /\ n > 0
    /\ IF LockErr(poisoned) # ""
       THEN LockFailed("handle_read", who, n, 0) /\ UNCHANGED <<trav, entries>>
       ELSE LET chunk == StreamRead(stream, phys, n) IN
            /\ phys' = phys + Len(chunk)
            /\ last' = Outcome("handle_read", who, n, "ok", "", chunk, phys, TRUE,
                               [NoPre EXCEPT !.phys = phys])
            /\ UNCHANGED <<shape, poisoned, lock, tasks, fs, ignore_zeros, trav,
                           entries, readers>>

\* seek(SeekFrom::Start(n)) on AsyncMutexReader (who = 1) and on
\* AsyncArchiveReader (who = 2): start_seek and poll_complete, each of which
\* locks and then calls R.
HandleSeek(who, n) ==
    /\ IF LockErr(poisoned) # ""
       THEN LockFailed("handle_seek", who, n, 0) /\ UNCHANGED <<trav, entries>>
       ELSE /\ phys' = SeekStart(phys, n)
            /\ last' = Outcome("handle_seek", who, n, "ok", "", <<>>, phys, TRUE,
                               [NoPre EXCEPT !.phys = phys])
            /\ UNCHANGED <<shape, poisoned, lock, tasks, fs, ignore_zeros, trav,
                           entries, readers>>

\* entries() on a mutex that may be poisoned: the first poll_read of
\* try_read_all_async fails to lock and ? returns the error.
LockedEntries ==
    IF LockErr(poisoned) # ""
    THEN ~trav.live /\ LockFailed("entries", 0, 0, 0) /\ UNCHANGED <<trav, entries>>
    ELSE Entries

\* next() on a mutex that may be poisoned: a finished traversal returns
\* before any lock; otherwise the header read fails to lock.
LockedNextEntry ==
    IF LockErr(poisoned) # "" /\ ~trav.done
    THEN /\ trav.live
         /\ LockFailed("next", 0, 0, 0)
         /\ trav' = [trav EXCEPT !.started = TRUE, !.failed = TRUE]
         /\ UNCHANGED entries
    ELSE NextEntry

\* AsyncEntryTrait::read on a mutex that may be poisoned: Ok(0) at the end of
\* the payload comes before the lock.
LockedEntryRead(i, k) ==
    IF LockErr(poisoned) # "" /\ i \in 1..Len(entries) /\ entries[i].pos < entries[i].size
    THEN LockFailed("read", i, k, entries[i].pos) /\ UNCHANGED <<trav, entries>>
    ELSE EntryRead(i, k)

\* The same program with a mutex that can be poisoned.  The handles are used
\* directly before the traversal is made and after the poisoning, and the
\* one seek is made on an entry after it.
NextWithPoison ==
    \/ Panic
    \/ LockedEntries
    \/ LockedNextEntry
    \/ \E i \in 1..MaxEntries, k \in BufLens : LockedEntryRead(i, k)
    \/ \E i \in 1..MaxEntries, w \in Whences, n \in SeekArgs :
            /\ poisoned
            /\ \A j \in 1..Len(entries) : entries[j].seeks = 0
            /\ EntrySeek(i, w, n)
    \/ \E who \in {1, 2} :
            (~trav.live \/ poisoned) /\ HandlePollRead(who, BLOCK_SIZE)
    \/ \E who \in {1, 2}, n \in HandleArgs :
            (~trav.live \/ poisoned) /\ HandleSeek(who, n)

\* Poisoning does not depend on what the archive holds: the archives here
\* are the well-formed ones.
InitPoison ==
    /\ Init
    /\ ~shape.cut /\ ~shape.damaged /\ ~shape.longname /\ ~shape.dir
    /\ shape.style = "digits"

SpecPoison == InitPoison /\ [][NextWithPoison]_vars

(***************************************************************************)
(* The offset arithmetic of next_entry_raw at the top of the unsigned      *)
(* range.  offset and size are u64; here a word has OffsetBits bits, so    *)
(* that the sums that do not fit are within reach.  The code adds with +   *)
(* and +=: a sum that does not fit wraps around in a build without         *)
(* overflow checks and panics in a build with them.                        *)
(***************************************************************************)
WordMax == 2^OffsetBits - 1

WrappingAdd(a, b) == (a + b) % (WordMax + 1)

Builds == {"wrapping", "overflow-checks"}

\* The sizes that accepted headers declare.
DeclaredSizes == {0, SmallSize, BLOCK_SIZE, BLOCK_SIZE + 1, 2 * BLOCK_SIZE + 1}

\* offset += BLOCK_SIZE; file_pos = offset; ...;
\* size = (size + (BLOCK_SIZE - 1)) & !(BLOCK_SIZE - 1); offset += size
\* for an accepted header that declares size, with the traversal at offset.
AdvanceOffset(offset, size, build) ==
    LET file_pos == WrappingAdd(offset, BLOCK_SIZE)
        rounded == (WrappingAdd(size, BLOCK_SIZE - 1) \div BLOCK_SIZE) * BLOCK_SIZE
        fits == /\ offset + BLOCK_SIZE <= WordMax
                /\ size + (BLOCK_SIZE - 1) <= WordMax
                /\ file_pos + rounded <= WordMax
    IN  IF ~fits /\ build = "overflow-checks"
        THEN [res |-> "panic", offset |-> offset]
        ELSE [res |-> "entry", offset |-> WrappingAdd(file_pos, rounded)]

\* next() on a stream whose next block is an acceptable header that declares
\* size: what becomes of the traversal's offset.
NextOffset(size, build) ==
    /\ trav.live /\ ~trav.done
    /\ last.res # "panic"
    /\ LET c == AdvanceOffset(trav.offset, size, build) IN
        /\ trav' = [trav EXCEPT !.offset = c.offset, !.started = TRUE]
        /\ last' = Outcome("next_offset", 0, size, c.res, "", <<>>, phys, TRUE,
                           [NoPre EXCEPT !.offset = trav.offset, !.phys = phys,
                                         !.first = ~trav.started])
    /\ UNCHANGED <<shape, poisoned, lock, tasks, fs, phys, ignore_zeros, entries,
                   readers>>

\* The stream is an archive of one member, on which entries() succeeds; the
\* headers that follow are given by what they declare.
InitOffsets ==
    /\ Init
    /\ shape.sizes = <<0>> /\ shape.style = "digits"
    /\ ~shape.cut /\ ~shape.damaged /\ ~shape.longname /\ ~shape.dir

NextOffsets ==
    \/ Entries
    \/ \E size \in DeclaredSizes, build \in Builds : NextOffset(size, build)

SpecOffsets == InitOffsets /\ [][NextOffsets]_vars

(***************************************************************************)
(* The AsyncRead and AsyncSeek implementations: poll_read on AsyncEntry,   *)
(* on AsyncEntryFields and on AsyncEntryReader, and start_seek on          *)
(* AsyncEntryReader.  The caller's ReadBuf has filled bytes in it already  *)
(* and room for more.                                                      *)
(***************************************************************************)
Filled == {0, SmallBuf}

\* poll_read for AsyncEntry: nothing at the end of the payload; else the
\* buffer is limited to min(remaining, size - pos), the shared stream is
\* polled, and pos += buf.filled().len().
EntryPollReadCall(e, s, p, filled, room) ==
    IF e.pos >= e.size
    THEN [bytes |-> <<>>, phys |-> p, pos |-> e.pos, io |-> FALSE]
    ELSE LET to_read == Min(room, e.size - e.pos)
             chunk == StreamRead(s, p, to_read)
         IN  [bytes |-> chunk, phys |-> p + Len(chunk),
              pos |-> e.pos + (filled + Len(chunk)), io |-> TRUE]

EntryPollRead(i, filled, room) ==
    /\ i \in 1..Len(entries)
    /\ LET c == EntryPollReadCall(entries[i], stream, phys, filled, room) IN
        /\ phys' = c.phys
        /\ entries' = [entries EXCEPT ![i].pos = c.pos]
        /\ last' = Outcome("poll_read", i, room, "ok", "", c.bytes, phys, c.io,
                           [NoPre EXCEPT !.phys = phys, !.pos = entries[i].pos])
    /\ UNCHANGED <<shape, poisoned, lock, tasks, fs, ignore_zeros, trav, readers>>

\* poll_read for AsyncEntryFields: the stream is polled with the caller's
\* buffer as it is, and pos += buf.filled().len().
FieldsPollReadCall(r, s, p, filled, room) ==
    LET chunk == StreamRead(s, p, room) IN
    [bytes |-> chunk, phys |-> p + Len(chunk), pos |-> r.pos + (filled + Len(chunk))]

\* A reader makes at most MaxReaderCalls calls.
FieldsPollRead(j, filled, room) ==
    /\ j \in 1..Len(readers)
    /\ readers[j].pc = "idle"
    /\ readers[j].calls < MaxReaderCalls
    /\ LET c == FieldsPollReadCall(readers[j], stream, phys, filled, room) IN
        /\ phys' = c.phys
        /\ readers' = [readers EXCEPT ![j].pos = c.pos, ![j].calls = @ + 1]
        /\ last' = Outcome("fields_poll_read", j, room, "ok", "", c.bytes, phys, TRUE,
                           [NoPre EXCEPT !.phys = phys, !.pos = readers[j].pos])
    /\ UNCHANGED <<shape, poisoned, lock, tasks, fs, ignore_zeros, trav, entries>>

\* poll_read for AsyncEntryReader: max = min(remaining, size - pos), nothing
\* when max is 0; else the stream is polled with the caller's buffer as it is
\* and pos += initial_remaining - buf.remaining().  size - pos with
\* pos > size panics in a build with overflow checks and wraps to a number
\* above any buffer length in a build without them.
ReaderPollCall(r, s, p, room, build) ==
    LET underflow == r.pos > r.size
        max == IF underflow THEN room ELSE Min(room, r.size - r.pos)
        chunk == StreamRead(s, p, room)
    IN  IF underflow /\ build = "overflow-checks"
        THEN [res |-> "panic", bytes |-> <<>>, phys |-> p, pos |-> r.pos, io |-> FALSE]
        ELSE IF max = 0
        THEN [res |-> "ok", bytes |-> <<>>, phys |-> p, pos |-> r.pos, io |-> FALSE]
        ELSE [res |-> "ok", bytes |-> chunk, phys |-> p + Len(chunk),
              pos |-> r.pos + Len(chunk), io |-> TRUE]

\* A reader that panicked makes no further call.
ReaderPoll(j, filled, room, build) ==
    /\ j \in 1..Len(readers)
    /\ readers[j].pc = "idle"
    /\ readers[j].calls < MaxReaderCalls
    /\ LET c == ReaderPollCall(readers[j], stream, phys, room, build) IN
        /\ phys' = c.phys
        /\ readers' = [readers EXCEPT ![j].pos = c.pos, ![j].calls = @ + 1,
                                      ![j].pc = IF c.res = "panic" THEN "panicked"
                                                ELSE "idle"]
        /\ last' = Outcome("reader_poll_read", j, room, c.res, "", c.bytes, phys, c.io,
                           [NoPre EXCEPT !.phys = phys, !.pos = readers[j].pos])
    /\ UNCHANGED <<shape, poisoned, lock, tasks, fs, ignore_zeros, trav, entries>>

\* start_seek and poll_complete for AsyncEntryReader: the code of AsyncEntry's.
ReaderStartSeek(j, whence, n) ==
    /\ j \in 1..Len(readers)
    /\ readers[j].pc = "idle"
    /\ readers[j].calls < MaxReaderCalls
    /\ whence = "Start" => n >= 0
    /\ readers' = [readers EXCEPT ![j].pos = EntrySeekCall(readers[j], whence, n),
                                  ![j].calls = @ + 1]
    /\ last' = Outcome("reader_seek", j, n, "ok", "", <<>>, phys, FALSE,
                       [NoPre EXCEPT !.phys = phys, !.pos = readers[j].pos])
    /\ UNCHANGED <<shape, poisoned, lock, tasks, fs, phys, ignore_zeros, trav, entries>>

\* The same program with the entries and the readers polled and seeked, over
\* the well-formed archives; the traversal is advanced and the entries are
\* polled only before the first reader is made.
InitPolls ==
    /\ Init
    /\ ~shape.cut /\ ~shape.damaged /\ ~shape.longname /\ ~shape.dir
    /\ shape.style = "digits"

NextWithPolls ==
    \/ Entries
    \/ NextEntry /\ readers = <<>>
    \/ \E i \in 1..MaxEntries, f \in Filled, k \in BufLens :
            readers = <<>> /\ EntryPollRead(i, f, k)
    \/ \E i \in 1..MaxEntries : ReaderNew(i)
    \/ \E j \in 1..MaxReaders, f \in Filled, k \in BufLens : FieldsPollRead(j, f, k)
    \/ \E j \in 1..MaxReaders, f \in Filled, k \in BufLens, b \in Builds :
            ReaderPoll(j, f, k, b)
    \/ \E j \in 1..MaxReaders, w \in Whences, n \in SeekArgs : ReaderStartSeek(j, w, n)

SpecPolls == InitPolls /\ [][NextWithPolls]_vars

(***************************************************************************)
(* The drain loop of AsyncArchive::unpack, one call at a time: next(), and *)
(* for every entry it yields the entry's unpack, until next() returns      *)
(* anything but an entry.  The entry at hand is the only one kept.         *)
(***************************************************************************)
DrainEnded == last.op = "next" /\ last.res # "entry" /\ entries = <<>>

\* The logical offset is at most twice the bytes consumed from the stream;
\* the loop is followed while it is within that.
OffsetCap == 2 * Len(stream)

\* next() whose reads leave the stream where it was.
NextCallStuck(t, s, p) ==
    LET c == NextCall(t, s, p) IN [c EXCEPT !.phys = p]

\* while let Ok(Some(entry)) = entries.next().await
DrainCall(t, s, p) == NextCall(t, s, p)

\* The loop is at a call of next(), at the unpack of the entry at hand.
AtDrainNext ==
    /\ trav.live
    /\ entries = <<>>
    /\ ~DrainEnded
    /\ trav.offset <= OffsetCap

AtDrainEntry == entries # <<>>

DrainNext ==
    /\ AtDrainNext
    /\ LET c == DrainCall(trav, stream, phys) IN
        /\ trav' = [c.trav EXCEPT !.started = TRUE,
                                  !.failed = trav.failed \/ c.res = "err"]
        /\ phys' = c.phys
        /\ entries' = IF c.res = "entry" THEN <<c.entry @@ [seeks |-> 0]>> ELSE <<>>
        /\ last' = Outcome("next", IF c.res = "entry" THEN 1 ELSE 0, 0,
                           c.res, c.err, <<>>, c.at, c.io,
                           [offset |-> trav.offset, done |-> trav.done, phys |-> phys,
                            pos |-> 0, first |-> ~trav.started,
                            failed |-> trav.failed])
    /\ UNCHANGED <<shape, poisoned, lock, tasks, fs, ignore_zeros, readers>>

\* AsyncEntryTrait::unpack(&mut entry, &path).await? in the body of the loop.
DrainEntry ==
    /\ AtDrainEntry
    /\ LET u == EntryUnpack(entries[1], stream, phys, <<entries[1].path>>) IN
        /\ phys' = u.phys
        /\ fs' = fs \o u.made
        /\ last' = Outcome("entry_unpack", 1, 0, "ok", "", <<>>, phys, TRUE,
                           [NoPre EXCEPT !.phys = phys])
    /\ entries' = <<>>
    /\ UNCHANGED <<shape, poisoned, lock, tasks, ignore_zeros, trav, readers>>

NextDrain ==
    \/ Entries
    \/ \E b \in BOOLEAN : SetIgnoreZeros(b)
    \/ DrainNext
    \/ DrainEntry

\* The loop runs in one task, which goes on to its next step whenever it has
\* one: weak fairness of the two steps, WF_vars(DrainNext) and
\* WF_vars(DrainEntry), each of which is enabled exactly when the loop is at it.
SpecDrain ==
    /\ Init /\ [][NextDrain]_vars
    /\ ([]<>~AtDrainNext \/ []<><<DrainNext>>_vars)
    /\ ([]<>~AtDrainEntry \/ []<><<DrainEntry>>_vars)

(***************************************************************************)
(* Properties.                                                             *)
(***************************************************************************)
\* The payload the archive holds for the member an entry was made from.
OwnPayload(e) ==
    IF e.kind = GnuLongName THEN LongName(Len(shape.sizes)) \o <<0>>
    ELSE Payload(e.path - 96, e.size)

LastEntry == entries[last.who]

\* C1: with two entries of different members alive, every read of either
\* returns bytes of its own member's payload, starting at its own cursor.
C1_InterleavedReadsKeepOwnBytes ==
    (last.op = "read" /\ Len(entries) >= 2 /\ entries[1].path # entries[2].path)
        => last.bytes = Slice(OwnPayload(LastEntry), last.pre.pos, Len(last.bytes))

\* C2: between the seek of an AsyncEntryReader read and the poll_read that
\* follows it nobody else moves the stream: while the reader stands between
\* the two, the stream is where the seek put it.
C2_SeekThenReadIsAtomic ==
    \A j \in 1..Len(readers) :
        readers[j].pc = "seeked" => phys = readers[j].file_pos + readers[j].pos

\* C3: on an archive of one member, entries() succeeds, the first next()
\* yields an entry of the member's size, read_all() on it returns the payload,
\* and every later next() reports exhaustion.
C3_SingleMemberArchive ==
    (Len(shape.sizes) = 1 /\ ~shape.cut /\ ~shape.damaged /\ ~shape.longname) =>
        /\ (last.op = "entries" /\ last.pre.phys = 0) => last.res = "ok"
        /\ (last.op = "next" /\ last.pre.first) =>
                (last.res = "entry" /\ LastEntry.size = shape.sizes[1])
        /\ (last.op = "read_all" /\ last.pre.pos = 0) =>
                (last.res = "ok" /\ last.bytes = Payload(1, shape.sizes[1]))
        /\ (last.op = "next" /\ ~last.pre.first) => last.res = "none"

\* C4: each read with a buffer of k bytes returns the next bytes of the
\* entry's payload, at most min(k, size - pos) of them and at least one while
\* payload remains in an archive that holds it all; at the end it returns 0.
C4_ChunkedReadsDeliverPayload ==
    last.op = "read" =>
        /\ last.res = "ok"
        /\ last.bytes = Slice(OwnPayload(LastEntry), last.pre.pos, Len(last.bytes))
        /\ Len(last.bytes) <= Min(last.arg, LastEntry.size - last.pre.pos)
        /\ (last.pre.pos < LastEntry.size /\ ~shape.cut) => Len(last.bytes) > 0
        /\ last.pre.pos >= LastEntry.size => Len(last.bytes) = 0

\* C5: read_all never succeeds with fewer bytes than the entry still had to
\* deliver.
C5_ReadAllNeverShort ==
    (last.op = "read_all" /\ last.res = "ok")
        => Len(last.bytes) = LastEntry.size - last.pre.pos

\* C6: entries() fails with the invalid-header error, and makes no traversal,
\* when the block at the start of the stream is short or all zero.
FirstBlockShort == Len(stream) < last.pre.phys + BLOCK_SIZE

FirstBlockZero == IsZeroBlock(Slice(stream, last.pre.phys, BLOCK_SIZE))

C7_FirstNextReadsOffsetZero ==
    (last.op = "next" /\ last.pre.first /\ last.io) => last.at = 0

\* C8: every next() reads its header block at next_header_offset, wherever
\* the stream stood.
C8_NextReadsAtHeaderOffset ==
    (last.op = "next" /\ last.io) => last.at = last.pre.offset

\* C9: draining a well-formed archive (members, then zero blocks) with
\* ignore_zeros off and no payload read yields the members in order, then
\* exhaustion, and never an error.
C9_DrainYieldsEveryMember ==
    (/\ ~shape.cut /\ ~shape.damaged /\ ~shape.longname
     /\ shape.zeros >= 1 /\ Len(shape.sizes) >= 1
     /\ trav.live /\ ~trav.ignore_zeros
     /\ \A i \in 1..Len(entries) : entries[i].pos = 0
     /\ last.op = "next") =>
        /\ last.res # "err"
        /\ last.res = "entry" =>
                (LastEntry.path = 96 + last.who /\ LastEntry.size = shape.sizes[last.who])
        /\ last.res = "none" => Len(entries) = Len(shape.sizes)

\* C10: once next() has reported exhaustion the traversal is done for good:
\* a later next() reports exhaustion again, does not touch the stream and
\* leaves the offset alone.
C10_ExhaustionIsSticky ==
    /\ [](last.op = "next" /\ last.res = "none" => trav.done)
    /\ [][trav.done =>
            /\ trav'.done
            /\ trav'.offset = trav.offset
            /\ (last'.op = "next" /\ last' # last) =>
                    (last'.res = "none" /\ ~last'.io /\ phys' = phys)]_vars

C10_Witness ==
    last.op = "next" /\ last.pre.done /\ last.res = "none" /\ trav.done

\* C11: once next() has returned an error the traversal has failed for good:
\* every later next() returns an error, does not read or seek the stream,
\* and yields no entry.
C11_FailedIsTerminal ==
    (last.op = "next" /\ last.pre.failed) =>
        (last.res = "err" /\ ~last.io /\ phys = last.pre.phys)

\* The offset of the header of member m in the archive.
RECURSIVE HeaderOffset(_, _)
HeaderOffset(sizes, m) ==
    IF m <= 1 THEN 0
    ELSE HeaderOffset(sizes, m - 1) + BLOCK_SIZE + RoundUp(sizes[m - 1])

\* The call that completed last was a next() that read, as its header block,
\* the damaged header of the archive.
ReadDamagedHeader ==
    /\ last.op = "next" /\ last.io
    /\ shape.damaged
    /\ last.at = HeaderOffset(shape.sizes, Len(shape.sizes))

EntryPath(e) == IF e.long_pathname # <<>> THEN e.long_pathname ELSE <<e.path>>

\* In an archive with a long name, the offset of the header that follows the
\* long-pathname header and its payload.
NamedHeaderOffset ==
    HeaderOffset(shape.sizes, Len(shape.sizes)) + BLOCK_SIZE + RoundUp(LongNameLen + 1)

\* C13: a long-pathname header is never yielded as an entry, and the entry
\* made from the header that follows it has the long name as its path.
C13_LongNameResolved ==
    (last.op = "next" /\ last.res = "entry") =>
        /\ LastEntry.kind # GnuLongName
        /\ (shape.longname /\ last.at = NamedHeaderOffset) =>
                EntryPath(LastEntry) = LongName(Len(shape.sizes))

\* Lexicographic order of paths, component by component.
RECURSIVE PathLess(_, _)
PathLess(a, b) ==
    IF Len(b) = 0 THEN FALSE
    ELSE IF Len(a) = 0 THEN TRUE
    ELSE IF a[1] # b[1] THEN a[1] < b[1]
    ELSE PathLess(Tail(a), Tail(b))

\* C14: unpack makes no directory of a directory entry before the files of
\* all other entries, and makes those directories in reverse lexicographic
\* order of their paths.
C14_DirectoriesAreDeferred ==
    last.op = "unpack" =>
        \A i, j \in 1..Len(fs) :
            /\ (fs[i].of = "directory" /\ fs[j].of = "file") => j < i
            /\ (fs[i].of = "directory" /\ fs[j].of = "directory" /\ i < j) =>
                    PathLess(fs[j].path, fs[i].path)

\* An archive of members and zero blocks only, unpacked from its start.
UnpackedWellFormed ==
    /\ last.op = "unpack" /\ last.pre.phys = 0
    /\ ~shape.cut /\ ~shape.damaged /\ ~shape.longname

\* C15: unpacking a well-formed archive makes, for each regular member, the
\* file at the member's path below the destination, holding the member's
\* payload, and no file for it anywhere else.
C15_UnpackMakesEachFile ==
    UnpackedWellFormed =>
        \A m \in 1..Len(shape.sizes) :
            KindOf(shape, m) = Regular =>
                /\ \E i \in 1..Len(fs) :
                        /\ fs[i].of = "file" /\ fs[i].path = <<96 + m>>
                        /\ fs[i].content = Payload(m, shape.sizes[m])
                /\ \A i \in 1..Len(fs) :
                        (fs[i].of = "file" /\ fs[i].path[Len(fs[i].path)] = 96 + m)
                            => fs[i].path = <<96 + m>>

\* C16: when a next() of its traversal returns an error, unpack returns an
\* error.
C16_UnpackReturnsTraversalError ==
    (last.op = "unpack" /\ last.err # "") => last.res = "err"

\* C17: the entries of a traversal come in archive byte order: the header
\* offset of each is greater than that of the one yielded before it, and not
\* less than the end of that one's payload.
C17_EntriesInByteOrder ==
    \A i, j \in 1..Len(entries) :
        i < j =>
            /\ entries[j].header_pos > entries[i].header_pos
            /\ entries[j].header_pos >= entries[i].file_pos + entries[i].size

C17_Witness ==
    /\ last.op = "next" /\ last.res = "entry"
    /\ Len(entries) = 2 /\ entries[1].size = SmallSize

\* C18: the traversal's offset and the header and payload offsets of every
\* yielded entry are multiples of the block size.
C18_OffsetsBlockAligned ==
    /\ trav.offset % BLOCK_SIZE = 0
    /\ \A i \in 1..Len(entries) :
            /\ entries[i].header_pos % BLOCK_SIZE = 0
            /\ entries[i].file_pos % BLOCK_SIZE = 0

C18_Witness ==
    /\ Len(entries) >= 1 /\ entries[1].size = SmallSize
    /\ trav.offset >= entries[1].file_pos + BLOCK_SIZE

\* C19: the read cursor of every entry stays between 0 and the entry's size,
\* whatever reads and seeks were made on it.
C19_CursorWithinPayload ==
    \A i \in 1..Len(entries) : 0 <= entries[i].pos /\ entries[i].pos <= entries[i].size

\* C20: with next() and reads called concurrently on one stream there is no
\* deadlock: at most one task holds the mutex, a task holds it only while it
\* is inside its poll, and whenever a task is in a call that needs the
\* mutex, some task can take the mutex or can finish its poll, which
\* releases it.
C20_NoDeadlock ==
    /\ Cardinality(lock) <= 1
    /\ \A t \in lock : tasks[t].pc = "holding"
    /\ (\E t \in Tasks : tasks[t].pc # "idle") =>
            \E t \in Tasks : CanAcquire(t) \/ CanPoll(t)

C20_Witness ==
    \E t, u \in Tasks : tasks[t].pc = "holding" /\ tasks[u].pc = "waiting"

\* The calls of a poisoned mutex that reach lock(): the handles' and the
\* archive's reads and seeks, entries(), next() of an unfinished traversal, and
\* the read of an entry whose cursor is short of its size.
ReachesLock ==
    \/ last.op \in {"handle_read", "handle_seek", "entries"}
    \/ last.op = "next" /\ ~last.pre.done
    \/ last.op = "read" /\ last.pre.pos < entries[last.who].size

AvailableAt == IF last.at >= Len(stream) THEN 0 ELSE Len(stream) - last.at

\* C22: a next() that finds between 1 and 511 bytes where it reads a header
\* returns an error, not exhaustion.
C22_PartialHeaderIsTruncationError ==
    (last.op = "next" /\ last.io /\ AvailableAt \in 1..(BLOCK_SIZE - 1)) =>
        last.res = "err"

\* The last call was a next() whose header read returned a whole block of
\* zeros, and it was not the first next() of the traversal.
ReadLaterZeroBlock ==
    /\ last.op = "next" /\ last.io /\ ~last.pre.first
    /\ last.at + BLOCK_SIZE <= Len(stream)
    /\ \A i \in 1..BLOCK_SIZE : stream[last.at + i] = 0

C23_WitnessOff == ReadLaterZeroBlock /\ ~trav.ignore_zeros /\ trav.done

\* The number of 512-byte blocks that hold s bytes.
BlocksFor(s) == IF s % BLOCK_SIZE = 0 THEN s \div BLOCK_SIZE ELSE s \div BLOCK_SIZE + 1

\* The size declared by the header block that the last next() read.
DeclaredSizeRead == HeaderSize(Slice(stream, last.at, BLOCK_SIZE))

\* C24: a next() that accepts a header at logical offset h with declared size
\* s yields an entry with header_pos = h, file_pos = h + 512 and pos = 0, and
\* leaves the traversal's offset at h + 512 + 512 * ceil(s / 512).
C24_YieldedEntryOffsets ==
    (last.op = "next" /\ last.res = "entry") =>
        LET h == last.pre.offset
            s == DeclaredSizeRead
            e == entries[last.who]
        IN  /\ e.size = s
            /\ e.header_pos = h
            /\ e.file_pos = h + BLOCK_SIZE
            /\ e.pos = 0
            /\ trav.offset = h + BLOCK_SIZE + BLOCK_SIZE * BlocksFor(s)

C24_Witness ==
    /\ last.op = "next" /\ last.res = "entry"
    /\ last.pre.offset > 0
    /\ DeclaredSizeRead = SmallSize
    /\ trav.offset = last.pre.offset + 2 * BLOCK_SIZE

\* The last call accepted a header whose block, or whose rounded payload,
\* ends beyond the largest offset a word holds.
OffsetSumOverflows ==
    /\ last.op = "next_offset"
    /\ last.pre.offset + BLOCK_SIZE + BLOCK_SIZE * BlocksFor(last.arg) > WordMax

\* C25: when the rounded size added to the offset exceeds the unsigned range,
\* next() returns an error: it neither panics nor lets the offset wrap.
C25_OverflowIsAnError ==
    OffsetSumOverflows => (last.res = "err" /\ trav.offset = last.pre.offset)

\* The size declared for the member that a file made by unpack was named
\* after (member m is named by the byte 96 + m).
DeclaredSizeOf(made) == shape.sizes[made.path[Len(made.path)] - 96]

\* C26: an unpack that returned Ok wrote, for every regular member it made a
\* file for, as many bytes as the member's header declares.
C26_UnpackNeverShort ==
    (last.op = "unpack" /\ last.res = "ok") =>
        \A k \in 1..Len(fs) :
            fs[k].of = "file" => Len(fs[k].content) = DeclaredSizeOf(fs[k])

\* The last call was a next() whose header read returned a block of ASCII
\* and zero bytes with a recognized magic, whose checksum field holds the
\* block's checksum the way set_cksum writes it.
ReadCodecHeader ==
    /\ last.op = "next" /\ last.io
    /\ last.at + BLOCK_SIZE <= Len(stream)
    /\ LET b == Slice(stream, last.at, BLOCK_SIZE) IN
        /\ SubSeq(b, 258, 265) \in {UstarMagic, GnuMagic}
        /\ \A i \in 1..BLOCK_SIZE : b[i] <= 127
        /\ SubSeq(b, 149, 156) = OctalInto(8, CalculateCksum(b))

\* C27: next() accepts a header whose checksum field was written by
\* set_cksum, and yields an entry for it.
C27_CodecHeaderAccepted ==
    ReadCodecHeader => (last.res = "entry" /\ last.who > 0)

\* C28: a poll_read that completed, on an entry, on a reader's fields or on
\* a reader, advanced the read cursor by the number of bytes it placed in the
\* caller's buffer.
C28_CursorAdvancesByBytesRead ==
    /\ (last.op = "poll_read" /\ last.res = "ok") =>
            entries[last.who].pos = last.pre.pos + Len(last.bytes)
    /\ (last.op \in {"fields_poll_read", "reader_poll_read"} /\ last.res = "ok") =>
            readers[last.who].pos = last.pre.pos + Len(last.bytes)

\* C29: poll_read of a reader never finds the cursor beyond the size, which
\* is when size - pos does not fit the unsigned range.
C29_NoUnderflowInPollRead ==
    (last.op = "reader_poll_read") => last.pre.pos <= readers[last.who].size

\* C30: once the traversal is made, the loop that calls next() and unpacks
\* what it yields comes to a call of next() that returns exhaustion or an
\* error.
C30_DrainTerminates == trav.live ~> DrainEnded

C30_Witness ==
    /\ DrainEnded
    /\ last.res = "none"
    /\ Len(fs) >= 4

====
